---- MODULE Spec2Model ----
(***************************************************************************)
(* DB_Utils (data-collection/dbutils.py): one facade object over an        *)
(* embedded SQLite database and a remote MongoDB collection.               *)
(*                                                                         *)
(* Python values are written as follows.  None and an empty list are the   *)
(* empty sequence <<>>, a present optional value v is <<v>>.  A sort       *)
(* direction is the text of the Python literal: "1", "-1", "ASC", "DESC".  *)
(* A row handed to SQLite is a tuple in column order; a MongoDB document   *)
(* is a record field -> value.  The ObjectId MongoDB adds to a document is *)
(* left out: no method of the class reads it.                              *)
(***************************************************************************)
EXTENDS Integers, Sequences, FiniteSets

\* ---------------------------------------------------------------- bounds
NThreads == 2
MaxCalls == 2
MaxDestroys == 2
MaxInstances == 2
MaxBatch == 2
MaxFaults == 1
MaxDocs == 5
MaxLimit == 2
MaxSortKeys == 2

Threads == 1..NThreads
NoThread == 0

\* ------------------------------------------------------- schema by mode
Modes == {"aux", "main"}

\* The column lists of sql_insert_cmd / the keys of mongo_data_dict.
Fields(mode) ==
    IF mode = "aux"
    THEN <<"timestamp", "currency", "rate">>
    ELSE <<"timestamp", "currency", "max", "min", "max_min", "mean",
           "corr_btc", "norm_vol", "fd", "insert_timestamp">>

\* PRIMARY KEY (timestamp, currency) in aux, PRIMARY KEY (timestamp) in main.
PrimaryKey(mode, row) ==
    IF mode = "aux" THEN <<row[1], row[2]>> ELSE <<row[1]>>

\* A caller's record for the mode: in main mode the eight feature columns
\* all carry the value v.
Row(mode, ts, cur, v) ==
    IF mode = "aux"
    THEN <<ts, cur, v>>
    ELSE <<ts, cur, v, v, v, v, v, v, v, ts>>

Records(mode) ==
    { Row(mode, 1, "BTC", 100), Row(mode, 1, "BTC", 105),
      Row(mode, 1, "ETH", 100), Row(mode, 2, "BTC", 100) }

\* The batches a caller passes: lists of distinct records, up to MaxBatch.
Batches(mode) ==
    { b \in UNION { [1..n -> Records(mode)] : n \in 0..MaxBatch } :
        \A i, j \in DOMAIN b : i # j => b[i] # b[j] }

Min(a, b) == IF a < b THEN a ELSE b
Range(s) == { s[i] : i \in DOMAIN s }

\* {key: value for key, value in zip(self.mongo_data_dict.keys(), data)}
Document(mode, data) ==
    LET fs == Fields(mode)
        n  == Min(Len(fs), Len(data))
    IN  [f \in {fs[i] : i \in 1..n} |->
            data[CHOOSE i \in 1..n : fs[i] = f]]

Documents(mode, batch) == [i \in DOMAIN batch |-> Document(mode, batch[i])]

\* ------------------------------------------------------------- queries
Directions == {"1", "-1", "ASC", "DESC"}
SortKeys == {"timestamp", "rate"}

\* The filters callers pass to find_records: none, equality on one field,
\* or a malformed one: its key is an operator the document server does not
\* know and no column of the table.
UnknownOperators == {"$bad"}
Queries ==
    { <<>>, <<[field |-> "currency", value |-> "BTC"]>>,
      <<[field |-> "$bad", value |-> "BTC"]>> }
Sorts == { <<>> } \cup { <<<<f, d>>>> : f \in SortKeys, d \in Directions }
Projections == { <<>>, <<{"timestamp", "rate"}>> }
Limits == { <<>> } \cup { <<n>> : n \in 0..MaxLimit }

FindArgs ==
    [query : Queries, sort : Sorts, projection : Projections, limit : Limits]

NoArgs == [query |-> <<>>, sort |-> <<>>, projection |-> <<>>, limit |-> <<>>]

\* The queries the callers of the threaded runs make.
CallerFinds ==
    { NoArgs,
      [NoArgs EXCEPT !.sort = <<<<"timestamp", "DESC">>>>, !.limit = <<2>>],
      [NoArgs EXCEPT !.sort = <<<<"timestamp", "-1">>>>, !.limit = <<2>>] }

Truthy(opt) == opt # <<>> /\ opt[1] # 0

Matches(doc, query) ==
    \/ query = <<>>
    \/ query[1].field \in DOMAIN doc /\ doc[query[1].field] = query[1].value

\* The order a sort specification with directions 1 / -1 puts two
\* documents in: the first key on which they differ decides.
\* A document without the field sorts as null, below every number.
SortValue(doc, f) == IF f \in DOMAIN doc THEN doc[f] ELSE 0

RECURSIVE Precedes(_, _, _)
Precedes(d1, d2, sort) ==
    IF sort = <<>> THEN FALSE
    ELSE LET a == SortValue(d1, sort[1][1])
             b == SortValue(d2, sort[1][1])
             desc == sort[1][2]
         IN  IF a = b THEN Precedes(d1, d2, Tail(sort))
             ELSE IF desc THEN a > b ELSE a < b

RECURSIVE InsertSorted(_, _, _)
InsertSorted(x, s, sort) ==
    IF s = <<>> THEN <<x>>
    ELSE IF Precedes(x, Head(s), sort) THEN <<x>> \o s
    ELSE <<Head(s)>> \o InsertSorted(x, Tail(s), sort)

\* The server's sort; documents equal on every key keep their stored order.
RECURSIVE SortDocs(_, _)
SortDocs(s, sort) ==
    IF s = <<>> THEN <<>>
    ELSE InsertSorted(s[Len(s)], SortDocs(SubSeq(s, 1, Len(s) - 1), sort), sort)

\* A projection names the fields to keep; none keeps the document whole.
Project(doc, projection) ==
    IF projection = <<>> THEN doc
    ELSE [f \in projection[1] \cap DOMAIN doc |-> doc[f]]

Take(s, n) == SubSeq(s, 1, Min(n, Len(s)))

\* A server that takes any key of a filter as a field name.
NoQueryRejected(query) == FALSE

\* collection.find(query, projection): the server fails a filter whose
\* top-level key is an operator it does not know.
MongoQueryRejected(query) ==
    query # <<>> /\ query[1].field \in UnknownOperators

\* A server that takes any value as a sort direction.
NoSortRejected(sort) == FALSE

\* cursor.sort(sort) hands the directions to the server unchanged; the
\* server accepts 1 and -1 and fails the query on anything else.
MongoSortRejected(sort) ==
    \E i \in DOMAIN sort : sort[i][2] \notin {"1", "-1"}

\* Whether the query raises inside the try block of _find_mongo.
MongoRejects(a) ==
    \/ MongoQueryRejected(a.query)
    \/ a.sort # <<>> /\ MongoSortRejected(a.sort)

\* A sort specification with every direction turned around.
ReversedSortSpec(sort) ==
    [i \in DOMAIN sort |-> <<sort[i][1], sort[i][2] # "-1">>]

MongoSortSpec(sort) ==
    [i \in DOMAIN sort |-> <<sort[i][1], sort[i][2] = "-1">>]

\* _find_mongo: the list returned, [] when the query raised.
FindMongo(collection, a) ==
    LET matched == SelectSeq(collection, LAMBDA d : Matches(d, a.query))
        sorted  == IF a.sort # <<>>
                   THEN SortDocs(matched, MongoSortSpec(a.sort))
                   ELSE matched
        limited == IF Truthy(a.limit) THEN Take(sorted, a.limit[1]) ELSE sorted
    IN  IF MongoRejects(a) THEN <<>>
        ELSE [i \in DOMAIN limited |-> Project(limited[i], a.projection)]

\* A rendering that takes every direction other than 1 and "ASC" as
\* descending.
SqliteStatementAscOnly(a) ==
    [ columns  |-> IF a.projection # <<>> THEN a.projection[1] ELSE <<"*">>,
      where    |-> a.query,
      order_by |-> [i \in DOMAIN a.sort |->
                      <<a.sort[i][1],
                        IF a.sort[i][2] = "1" \/ a.sort[i][2] = "ASC"
                        THEN "ASC" ELSE "DESC">>],
      limit    |-> IF Truthy(a.limit) THEN a.limit ELSE <<>> ]

\* _find_sqlite: the statement rendered from the arguments.
SqliteStatement(a) ==
    [ columns  |-> IF a.projection # <<>> THEN a.projection[1] ELSE <<"*">>,
      where    |-> a.query,
      order_by |-> [i \in DOMAIN a.sort |->
                      <<a.sort[i][1],
                        IF a.sort[i][2] = "-1" \/ a.sort[i][2] = "DESC"
                        THEN "DESC" ELSE "ASC">>],
      limit    |-> IF Truthy(a.limit) THEN a.limit ELSE <<>> ]

\* A table scan without ORDER BY: some enumeration of the rows.
TableScan(table) ==
    IF table = {} THEN <<>>
    ELSE CHOOSE s \in [1..Cardinality(table) -> table] :
            \A i, j \in DOMAIN s : i # j => s[i] # s[j]

\* Whether SQLite fails the statement: it names a column the table of the
\* mode does not have.
SqliteRejects(mode, a) ==
    \/ a.query # <<>> /\ a.query[1].field \notin Range(Fields(mode))
    \/ \E i \in DOMAIN a.sort : a.sort[i][1] \notin Range(Fields(mode))
    \/ a.projection # <<>> /\ ~(a.projection[1] \subseteq Range(Fields(mode)))

\* _find_sqlite: the statement executed on the connection's view of the
\* table, each row zipped with the column names of the result.
FindSqlite(mode, table, a) ==
    LET st      == SqliteStatement(a)
        all     == Documents(mode, TableScan(table))
        matched == SelectSeq(all, LAMBDA d : Matches(d, st.where))
        sorted  == IF st.order_by # <<>>
                   THEN SortDocs(matched,
                          [i \in DOMAIN st.order_by |->
                             <<st.order_by[i][1], st.order_by[i][2] = "DESC">>])
                   ELSE matched
        limited == IF st.limit # <<>> THEN Take(sorted, st.limit[1]) ELSE sorted
    IN  IF SqliteRejects(mode, a) THEN <<>>
        ELSE [i \in DOMAIN limited |-> Project(limited[i], a.projection)]

\* ------------------------------------------------- constructor inputs
CtorModes == Modes \cup {"weekly"}
Uris == { <<>>, <<"mongodb+srv://cluster">> }
Servers == {"up", "unreachable", "ping_fails"}

\* --------------------------------------------------------------- state
VARIABLES
    stage,       \* how far __init__ got: none, new, schema, sqlite, ready, failed
    self,        \* the attributes set on the instance
    uri,         \* the mongo_uri argument of the constructor
    server,      \* how the document server answers that constructor
    ctorErr,     \* the exception __init__ raised, "" for none
    made,        \* instances constructed so far
    disk,        \* <db_name>.db: whether it exists, its table, the committed rows
    pending,     \* rows inserted in the connection's open transaction
    cursorBusy,  \* the thread inside an execute on the shared cursor
    sql_lock,    \* holder of self.sql_lock
    mongo_lock,  \* holder of self.mongo_lock
    docs,        \* the remote collection, in stored order
    pc,          \* where each thread is in its call
    arg,         \* the argument of each thread's current or last call
    idx,         \* executemany: the next row of the batch
    out,         \* the call that returned last: to whom, what, and what was printed
    before,      \* the committed rows when the thread's call started
    faults,      \* backend failures injected so far
    calls,       \* insert calls started so far
    destroys,    \* delete calls started so far
    hist         \* what callers have submitted and destroyed

ctorVars == <<stage, self, uri, server, ctorErr, made>>
sqlVars == <<disk, pending, cursorBusy, sql_lock>>
mongoVars == <<docs, mongo_lock>>
thrVars == <<pc, arg, idx, out, before>>
vars == <<stage, self, uri, server, ctorErr, made, disk, pending, cursorBusy, sql_lock,
          mongo_lock, docs, pc, arg, idx, out, before, faults, calls, destroys,
          hist>>

NoOut == [thread |-> NoThread, op |-> "", args |-> NoArgs, ret |-> "None",
          log |-> "", list |-> <<>>]
NoHist == [keysS |-> {}, dupS |-> 0, keysM |-> {}, attM |-> 0, dupM |-> 0,
           destroyed |-> {}, fresh |-> FALSE]

Keys(mode, rs) == { PrimaryKey(mode, r) : r \in rs }
DocKey(mode, d) ==
    IF mode = "aux" THEN <<d.timestamp, d.currency>> ELSE <<d.timestamp>>
DocKeys(mode, ds) == { DocKey(mode, d) : d \in ds }

\* How many elements of a submitted list repeat a key submitted before them.
Repeats(keys, seen) ==
    Cardinality({ i \in DOMAIN keys :
        keys[i] \in seen \/ \E j \in 1..(i - 1) : keys[j] = keys[i] })

Init ==
    /\ stage = "none"
    /\ self = [mode |-> "aux", sql_schema |-> FALSE, conn |-> "none",
               collection |-> FALSE]
    /\ uri = <<>>
    /\ server = "up"
    /\ ctorErr = ""
    /\ made = 0
    /\ disk = [file |-> FALSE, table |-> FALSE, rows |-> {}]
    /\ pending = {}
    /\ cursorBusy = NoThread
    /\ sql_lock = NoThread
    /\ mongo_lock = NoThread
    /\ docs = <<>>
    /\ pc = [t \in Threads |-> "idle"]
    /\ arg = [t \in Threads |-> <<>>]
    /\ idx = [t \in Threads |-> 0]
    /\ out = NoOut
    /\ before = [t \in Threads |-> {}]
    /\ faults = 0
    /\ calls = 0
    /\ destroys = 0
    /\ hist = NoHist

\* ---------------------------------------------------------- __init__
\* DB_Utils(db_name, collection_name, mode, mongo_uri): the attribute
\* assignments.  A further instance is made on the same names and mode,
\* and only once no thread is inside the one before and its connection is
\* closed.
New(mode, mongo_uri, answer) ==
    /\ made < MaxInstances
    /\ \/ stage = "none"
       \/ stage = "ready" /\ self.conn = "closed" /\ mode = self.mode
    /\ \A t \in Threads : pc[t] = "idle"
    /\ stage' = "new"
    /\ self' = [mode |-> mode, sql_schema |-> FALSE, conn |-> "none",
                collection |-> FALSE]
    /\ uri' = mongo_uri
    /\ server' = answer
    /\ ctorErr' = ""
    /\ made' = made + 1
    /\ pending' = {}
    /\ cursorBusy' = NoThread
    /\ sql_lock' = NoThread
    /\ mongo_lock' = NoThread
    /\ hist' = [NoHist EXCEPT !.fresh = hist.destroyed = {"sqlite", "mongo"}]
    /\ UNCHANGED <<disk, docs, thrVars, faults, calls, destroys>>

\* __set_mode_specifics: the schema for aux or main; any other mode falls
\* through both branches and sets nothing.
SetModeSpecifics ==
    /\ stage = "new"
    /\ stage' = "schema"
    /\ self' = [self EXCEPT !.sql_schema = self.mode \in Modes]
    /\ UNCHANGED <<uri, server, ctorErr, made, sqlVars, mongoVars, thrVars, faults,
                   calls, destroys, hist>>

\* __create_sqlite_db: connect (which creates the file), then execute
\* self.sql_schema, an AttributeError when the attribute was never set.
CreateSqliteDb ==
    /\ stage = "schema"
    /\ self' = [self EXCEPT !.conn = "open"]
    /\ IF self.sql_schema
       THEN /\ disk' = [disk EXCEPT !.file = TRUE, !.table = TRUE]
            /\ stage' = "sqlite"
            /\ ctorErr' = ""
       ELSE /\ disk' = [disk EXCEPT !.file = TRUE]
            /\ stage' = "failed"
            /\ ctorErr' = "AttributeError"
    /\ UNCHANGED <<uri, server, made, pending, cursorBusy, sql_lock, mongoVars,
                   thrVars, faults, calls, destroys, hist>>

\* __create_mongo_db with an except block that prints and does not raise
\* again: the constructor returns without the collection attribute.
CreateMongoDbQuiet ==
    /\ stage = "sqlite"
    /\ IF uri = <<>>
       THEN stage' = "failed" /\ ctorErr' = "ValueError" /\ self' = self
       ELSE /\ stage' = "ready"
            /\ ctorErr' = ""
            /\ self' = [self EXCEPT !.collection = (server = "up")]
    /\ UNCHANGED <<uri, server, made, sqlVars, mongoVars, thrVars, faults, calls,
                   destroys, hist>>

\* __create_mongo_db: ValueError without a URI; a failed connection or ping
\* is printed and raised again; otherwise the collection handle is set.
CreateMongoDb ==
    /\ stage = "sqlite"
    /\ IF uri = <<>>
       THEN stage' = "failed" /\ ctorErr' = "ValueError" /\ self' = self
       ELSE IF server # "up"
       THEN stage' = "failed" /\ ctorErr' = "ConnectionError" /\ self' = self
       ELSE /\ stage' = "ready"
            /\ ctorErr' = ""
            /\ self' = [self EXCEPT !.collection = TRUE]
    /\ UNCHANGED <<uri, server, made, sqlVars, mongoVars, thrVars, faults, calls,
                   destroys, hist>>

\* ------------------------------------------------------ calls, returns
Idle(t) == stage = "ready" /\ pc[t] = "idle"
CanCall(t) == Idle(t) /\ calls < MaxCalls
CanDestroy(t) == Idle(t) /\ destroys < MaxDestroys

\* An insert call starts.
Started(t, h) ==
    /\ calls' = calls + 1
    /\ hist' = [h EXCEPT !.fresh = FALSE]

\* A call with argument a is under way, at its step `label`.
Enters(t, label, a) ==
    /\ pc' = [pc EXCEPT ![t] = label]
    /\ arg' = [arg EXCEPT ![t] = a]
    /\ before' = [before EXCEPT ![t] = disk.rows]
    /\ UNCHANGED out

\* A call ends: what the caller gets and what was printed.
Answered(t, op, a, ret, log, list) ==
    /\ pc' = [pc EXCEPT ![t] = "idle"]
    /\ arg' = [arg EXCEPT ![t] = <<>>]
    /\ before' = [before EXCEPT ![t] = {}]
    /\ out' = [thread |-> t, op |-> op, args |-> a, ret |-> ret, log |-> log,
               list |-> list]

Returned(t, op, ret, log, list) == Answered(t, op, NoArgs, ret, log, list)

CanFail == faults < MaxFaults

\* ------------------------------------------------ push_to_sqlite_db
SubmittedS(rows) ==
    [hist EXCEPT !.keysS = @ \cup Keys(self.mode, Range(rows)),
                 !.dupS = @ + Repeats([i \in DOMAIN rows |->
                                          PrimaryKey(self.mode, rows[i])],
                                      hist.keysS)]

\* What the shared cursor does with an execute: it refuses one on a closed
\* connection, and one entered while another thread's execute is running
\* on it (ProgrammingError).
CursorRefuses == self.conn # "open" \/ cursorBusy # NoThread

\* cursor.execute(...) is entered, under no lock.  A refusal lands in
\* `except Exception`.
PushSqliteExecute(t, data) ==
    /\ CanCall(t)
    /\ Started(t, SubmittedS(<<data>>))
    /\ IF CursorRefuses
       THEN /\ Returned(t, "push_to_sqlite_db", "None", "error", <<>>)
            /\ UNCHANGED cursorBusy
       ELSE /\ cursorBusy' = t
            /\ Enters(t, "ps_step", data)
    /\ UNCHANGED <<ctorVars, disk, pending, sql_lock, mongoVars, idx, faults,
                   destroys>>

\* A table created without its PRIMARY KEY clause: no INSERT violates it.
NoPrimaryKey(row) == FALSE

\* Whether the INSERT of a row violates the table's primary key, given the
\* committed rows and those of the open transaction.
KeyTaken(row) ==
    PrimaryKey(self.mode, row) \in Keys(self.mode, disk.rows \cup pending)

\* The INSERT of one row in the connection's transaction.
InsertRow(txn, row) == txn \cup {row}

\* The statement runs: IntegrityError on a taken primary key, else the row
\* joins the open transaction.
PushSqliteStep(t) ==
    /\ pc[t] = "ps_step"
    /\ cursorBusy' = NoThread
    /\ \/ /\ CanFail
          /\ faults' = faults + 1
          /\ Returned(t, "push_to_sqlite_db", "None", "error", <<>>)
          /\ UNCHANGED pending
       \/ /\ self.conn # "open"
          /\ Returned(t, "push_to_sqlite_db", "None", "error", <<>>)
          /\ UNCHANGED <<pending, faults>>
       \/ /\ self.conn = "open"
          /\ KeyTaken(arg[t])
          /\ Returned(t, "push_to_sqlite_db", "None", "duplicate", <<>>)
          /\ UNCHANGED <<pending, faults>>
       \/ /\ self.conn = "open"
          /\ ~KeyTaken(arg[t])
          /\ pending' = InsertRow(pending, arg[t])
          /\ pc' = [pc EXCEPT ![t] = "ps_commit"]
          /\ UNCHANGED <<arg, before, out, faults>>
    /\ UNCHANGED <<ctorVars, disk, sql_lock, mongoVars, idx, calls, destroys,
                   hist>>

\* conn.commit(): everything in the connection's open transaction becomes
\* durable, whichever thread inserted it.
Commit(table, txn) == table \cup txn

PushSqliteCommit(t) ==
    /\ pc[t] = "ps_commit"
    /\ \/ /\ CanFail
          /\ faults' = faults + 1
          /\ Returned(t, "push_to_sqlite_db", "None", "error", <<>>)
          /\ UNCHANGED <<disk, pending>>
       \/ /\ self.conn # "open"
          /\ Returned(t, "push_to_sqlite_db", "None", "error", <<>>)
          /\ UNCHANGED <<disk, pending, faults>>
       \/ /\ self.conn = "open"
          /\ disk' = [disk EXCEPT !.rows = Commit(disk.rows, pending)]
          /\ pending' = {}
          /\ Returned(t, "push_to_sqlite_db", "None", "inserted", <<>>)
          /\ UNCHANGED faults
    /\ UNCHANGED <<ctorVars, cursorBusy, sql_lock, mongoVars, idx, calls,
                   destroys, hist>>

\* ----------------------------------------------- bulk_insert_sqlite
BulkSqliteCall(t, records) ==
    /\ CanCall(t)
    /\ Started(t, SubmittedS(records))
    /\ Enters(t, "bs_lock", records)
    /\ UNCHANGED <<ctorVars, sqlVars, mongoVars, idx, faults, destroys>>

\* with self.sql_lock:
BulkSqliteAcquire(t) ==
    /\ pc[t] = "bs_lock"
    /\ sql_lock = NoThread
    /\ sql_lock' = t
    /\ pc' = [pc EXCEPT ![t] = "bs_exec"]
    /\ UNCHANGED <<ctorVars, disk, pending, cursorBusy, mongoVars, arg, idx,
                   out, before, faults, calls, destroys, hist>>

\* cursor.executemany(...) is entered: a refusal is caught by the handler
\* that rolls back.
BulkSqliteExecutemany(t) ==
    /\ pc[t] = "bs_exec"
    /\ IF CursorRefuses
       THEN pc' = [pc EXCEPT ![t] = "bs_rollback"] /\ UNCHANGED <<cursorBusy, idx>>
       ELSE IF arg[t] = <<>>
       THEN pc' = [pc EXCEPT ![t] = "bs_commit"] /\ UNCHANGED <<cursorBusy, idx>>
       ELSE /\ cursorBusy' = t
            /\ idx' = [idx EXCEPT ![t] = 1]
            /\ pc' = [pc EXCEPT ![t] = "bs_step"]
    /\ UNCHANGED <<ctorVars, disk, pending, sql_lock, mongoVars, arg, out,
                   before, faults, calls, destroys, hist>>

\* One row of the batch runs; the cursor stays taken until the last row.
BulkSqliteStep(t) ==
    /\ pc[t] = "bs_step"
    /\ \/ /\ CanFail
          /\ faults' = faults + 1
          /\ cursorBusy' = NoThread
          /\ idx' = [idx EXCEPT ![t] = 0]
          /\ pc' = [pc EXCEPT ![t] = "bs_rollback"]
          /\ UNCHANGED pending
       \/ /\ self.conn # "open" \/ KeyTaken(arg[t][idx[t]])
          /\ cursorBusy' = NoThread
          /\ idx' = [idx EXCEPT ![t] = 0]
          /\ pc' = [pc EXCEPT ![t] = "bs_rollback"]
          /\ UNCHANGED <<pending, faults>>
       \/ /\ self.conn = "open"
          /\ ~KeyTaken(arg[t][idx[t]])
          /\ pending' = InsertRow(pending, arg[t][idx[t]])
          /\ IF idx[t] = Len(arg[t])
             THEN /\ cursorBusy' = NoThread
                  /\ idx' = [idx EXCEPT ![t] = 0]
                  /\ pc' = [pc EXCEPT ![t] = "bs_commit"]
             ELSE /\ idx' = [idx EXCEPT ![t] = idx[t] + 1]
                  /\ UNCHANGED <<cursorBusy, pc>>
          /\ UNCHANGED faults
    /\ UNCHANGED <<ctorVars, disk, sql_lock, mongoVars, arg, out, before,
                   calls, destroys, hist>>

\* conn.commit(); return True, leaving the with block.
BulkSqliteCommit(t) ==
    /\ pc[t] = "bs_commit"
    /\ \/ /\ CanFail
          /\ faults' = faults + 1
          /\ pc' = [pc EXCEPT ![t] = "bs_rollback"]
          /\ UNCHANGED <<disk, pending, sql_lock, arg, before, out>>
       \/ /\ self.conn # "open"
          /\ pc' = [pc EXCEPT ![t] = "bs_rollback"]
          /\ UNCHANGED <<disk, pending, sql_lock, arg, before, out, faults>>
       \/ /\ self.conn = "open"
          /\ disk' = [disk EXCEPT !.rows = Commit(disk.rows, pending)]
          /\ pending' = {}
          /\ sql_lock' = NoThread
          /\ Returned(t, "bulk_insert_sqlite", "True", "inserted", <<>>)
          /\ UNCHANGED faults
    /\ UNCHANGED <<ctorVars, cursorBusy, mongoVars, idx, calls, destroys, hist>>

\* conn.rollback(): the open transaction is discarded.
Rollback(txn) == {}

\* What a call gives its caller when conn.rollback() raises inside the
\* except block: nothing catches it, the exception leaves the call.
RollbackRaised == "raised"

\* The except block under a lock taken with acquire() and given back only
\* before `return False`: an exception raised by conn.rollback() leaves the
\* call with the lock still held.
BulkSqliteRollbackHeld(t) ==
    /\ pc[t] = "bs_rollback"
    /\ \/ /\ CanFail
          /\ faults' = faults + 1
          /\ Returned(t, "bulk_insert_sqlite", RollbackRaised, "error", <<>>)
          /\ UNCHANGED <<pending, sql_lock>>
       \/ /\ self.conn # "open"
          /\ Returned(t, "bulk_insert_sqlite", RollbackRaised, "error", <<>>)
          /\ UNCHANGED <<pending, faults, sql_lock>>
       \/ /\ self.conn = "open"
          /\ pending' = Rollback(pending)
          /\ sql_lock' = NoThread
          /\ Returned(t, "bulk_insert_sqlite", "False", "error", <<>>)
          /\ UNCHANGED faults
    /\ UNCHANGED <<ctorVars, disk, cursorBusy, mongoVars, idx, calls, destroys,
                   hist>>

\* The except block: print, conn.rollback(), return False; the with block
\* is left on either way out.
BulkSqliteRollback(t) ==
    /\ pc[t] = "bs_rollback"
    /\ sql_lock' = NoThread
    /\ \/ /\ CanFail
          /\ faults' = faults + 1
          /\ Returned(t, "bulk_insert_sqlite", RollbackRaised, "error", <<>>)
          /\ UNCHANGED pending
       \/ /\ self.conn # "open"
          /\ Returned(t, "bulk_insert_sqlite", RollbackRaised, "error", <<>>)
          /\ UNCHANGED <<pending, faults>>
       \/ /\ self.conn = "open"
          /\ pending' = Rollback(pending)
          /\ Returned(t, "bulk_insert_sqlite", "False", "error", <<>>)
          /\ UNCHANGED faults
    /\ UNCHANGED <<ctorVars, disk, cursorBusy, mongoVars, idx, calls, destroys,
                   hist>>

\* ------------------------------------------------- push_to_mongo_db
SubmittedM(documents) ==
    [hist EXCEPT !.keysM = @ \cup DocKeys(self.mode, Range(documents)),
                 !.attM = @ + Len(documents),
                 !.dupM = @ + Repeats([i \in DOMAIN documents |->
                                          DocKey(self.mode, documents[i])],
                                      hist.keysM)]

\* collection.insert_one / insert_many: the collection has no index but the
\* one on the generated _id, so every document given is stored.
InsertDocs(collection, documents) == collection \o documents

\* A collection holding documents again is no longer a dropped one.
Stored(h, documents) ==
    IF documents = <<>> THEN h
    ELSE [h EXCEPT !.destroyed = @ \ {"mongo"}]

PushMongo(t, data) ==
    /\ CanCall(t)
    /\ LET document == Document(self.mode, data) IN
       \/ /\ CanFail
          /\ faults' = faults + 1
          /\ Started(t, SubmittedM(<<document>>))
          /\ Returned(t, "push_to_mongo_db", "None", "error", <<>>)
          /\ UNCHANGED docs
       \/ /\ docs' = InsertDocs(docs, <<document>>)
          /\ Started(t, Stored(SubmittedM(<<document>>), <<document>>))
          /\ Returned(t, "push_to_mongo_db", "None", "inserted", <<>>)
          /\ UNCHANGED faults
    /\ UNCHANGED <<ctorVars, sqlVars, mongo_lock, idx, destroys>>

\* ------------------------------------------------ bulk_insert_mongo
BulkMongoCall(t, documents) ==
    /\ CanCall(t)
    /\ Started(t, SubmittedM(documents))
    /\ Enters(t, "bm_lock", documents)
    /\ UNCHANGED <<ctorVars, sqlVars, mongoVars, idx, faults, destroys>>

\* with self.mongo_lock:
BulkMongoAcquire(t) ==
    /\ pc[t] = "bm_lock"
    /\ mongo_lock = NoThread
    /\ mongo_lock' = t
    /\ pc' = [pc EXCEPT ![t] = "bm_insert"]
    /\ UNCHANGED <<ctorVars, sqlVars, docs, arg, idx, out, before, faults,
                   calls, destroys, hist>>

Without(s, k) == SubSeq(s, 1, k - 1) \o SubSeq(s, k + 1, Len(s))

\* insert_many(documents, ordered=False) unless the list is empty: a write
\* that fails on one document still stores the others, and the call
\* returns False.
BulkMongoInsert(t) ==
    /\ pc[t] = "bm_insert"
    /\ mongo_lock' = NoThread
    /\ \/ /\ CanFail
          /\ arg[t] # <<>>
          /\ faults' = faults + 1
          /\ \E k \in DOMAIN arg[t] :
                /\ docs' = InsertDocs(docs, Without(arg[t], k))
                /\ hist' = Stored(hist, Without(arg[t], k))
          /\ Returned(t, "bulk_insert_mongo", "False", "error", <<>>)
       \/ /\ docs' = IF arg[t] # <<>> THEN InsertDocs(docs, arg[t]) ELSE docs
          /\ hist' = Stored(hist, arg[t])
          /\ Returned(t, "bulk_insert_mongo", "True", "inserted", <<>>)
          /\ UNCHANGED faults
    /\ UNCHANGED <<ctorVars, sqlVars, idx, calls, destroys>>

\* ----------------------------------------------------- find_records
\* A find that answers with the documents of the collection followed by
\* the rows of the table.
FindMerged(a) ==
    FindMongo(docs, a) \o FindSqlite(self.mode, disk.rows \cup pending, a)

\* The document store answers whenever the instance has a collection
\* attribute; a query that raises is printed and gives [].
FindResult(a) ==
    IF self.collection
    THEN FindMongo(docs, a)
    ELSE IF self.conn = "open"
    THEN FindSqlite(self.mode, disk.rows \cup pending, a)
    ELSE <<>>

\* Whether the query raised inside _find_mongo / _find_sqlite.
FindRaises(a) ==
    IF self.collection
    THEN MongoRejects(a)
    ELSE self.conn # "open" \/ SqliteRejects(self.mode, a)

FindRecords(t, a) ==
    /\ Idle(t)
    /\ IF self.mode \notin Modes
       THEN Answered(t, "find_records", a, "raised", "error", <<>>)
            /\ UNCHANGED faults
       ELSE \/ /\ CanFail
               /\ faults' = faults + 1
               /\ Answered(t, "find_records", a, "list", "error", <<>>)
            \/ /\ Answered(t, "find_records", a, "list",
                           IF FindRaises(a) THEN "error" ELSE "", FindResult(a))
               /\ UNCHANGED faults
    /\ UNCHANGED <<ctorVars, sqlVars, mongoVars, idx, calls, destroys, hist>>

\* _find_sqlite called on the instance directly: the statement runs on the
\* shared cursor; any error is printed and gives [].
FindSqliteCall(t, a) ==
    /\ Idle(t)
    /\ \/ /\ CanFail
          /\ faults' = faults + 1
          /\ Answered(t, "_find_sqlite", a, "list", "error", <<>>)
       \/ /\ IF CursorRefuses \/ SqliteRejects(self.mode, a)
             THEN Answered(t, "_find_sqlite", a, "list", "error", <<>>)
             ELSE Answered(t, "_find_sqlite", a, "list", "",
                           FindSqlite(self.mode, disk.rows \cup pending, a))
          /\ UNCHANGED faults
    /\ UNCHANGED <<ctorVars, sqlVars, mongoVars, idx, calls, destroys, hist>>

\* ---------------------------------------------------- delete_sqlite_db
\* cursor.close(); conn.close(): the open transaction is discarded.  On a
\* connection closed before, cursor.close() raises ProgrammingError and
\* the call ends there.
DeleteSqliteClose(t) ==
    /\ CanDestroy(t)
    /\ destroys' = destroys + 1
    /\ IF self.conn = "open"
       THEN /\ self' = [self EXCEPT !.conn = "closed"]
            /\ pending' = {}
            /\ Enters(t, "ds_remove", <<>>)
       ELSE /\ Returned(t, "delete_sqlite_db", "raised", "", <<>>)
            /\ UNCHANGED <<self, pending>>
    /\ UNCHANGED <<stage, uri, server, ctorErr, made, disk, cursorBusy, sql_lock,
                   mongoVars, idx, faults, calls, hist>>

\* delete_sqlite_db without its os.remove: the file stays as it is.
FileKept(d) == d

\* os.remove(<db_name>.db); FileNotFoundError is printed and passed over.
RemoveFile(d) == [file |-> FALSE, table |-> FALSE, rows |-> {}]

DeleteSqliteRemove(t) ==
    /\ pc[t] = "ds_remove"
    /\ disk' = RemoveFile(disk)
    /\ hist' = [hist EXCEPT !.destroyed = @ \cup {"sqlite"}]
    /\ Returned(t, "delete_sqlite_db", "None",
                IF disk.file THEN "" ELSE "not found", <<>>)
    /\ UNCHANGED <<ctorVars, pending, cursorBusy, sql_lock, mongoVars, idx,
                   faults, calls, destroys>>

\* ----------------------------------------------------- delete_mongo_db
\* collection.drop(); an error is printed and passed over.
DropCollection(collection) == <<>>

DeleteMongo(t) ==
    /\ CanDestroy(t)
    /\ destroys' = destroys + 1
    /\ \/ /\ CanFail
          /\ faults' = faults + 1
          /\ Returned(t, "delete_mongo_db", "None", "error", <<>>)
          /\ UNCHANGED <<docs, hist>>
       \/ /\ docs' = DropCollection(docs)
          /\ hist' = [hist EXCEPT !.destroyed = @ \cup {"mongo"}]
          /\ Returned(t, "delete_mongo_db", "None", "", <<>>)
          /\ UNCHANGED faults
    /\ UNCHANGED <<ctorVars, sqlVars, mongo_lock, idx, calls>>

\* ------------------------------------------------------ specifications
Construct ==
    \/ \E m \in CtorModes, u \in Uris, s \in Servers : New(m, u, s)
    \/ SetModeSpecifics
    \/ CreateSqliteDb
    \/ CreateMongoDb

\* The insert calls of a thread.
Writes(t) ==
    \/ \E r \in Records(self.mode) : PushSqliteExecute(t, r)
    \/ PushSqliteStep(t)
    \/ PushSqliteCommit(t)
    \/ \E b \in Batches(self.mode) : BulkSqliteCall(t, b)
    \/ BulkSqliteAcquire(t)
    \/ BulkSqliteExecutemany(t)
    \/ BulkSqliteStep(t)
    \/ BulkSqliteCommit(t)
    \/ BulkSqliteRollback(t)
    \/ \E r \in Records(self.mode) : PushMongo(t, r)
    \/ \E b \in Batches(self.mode) : BulkMongoCall(t, Documents(self.mode, b))
    \/ BulkMongoAcquire(t)
    \/ BulkMongoInsert(t)

\* The queries of a thread.
Finds(t) == \E a \in CallerFinds : FindRecords(t, a)

\* The delete calls of a thread.
Deletes(t) ==
    \/ DeleteSqliteClose(t)
    \/ DeleteSqliteRemove(t)
    \/ DeleteMongo(t)

\* The single-record insert calls of a thread.
Single(t) ==
    \/ \E r \in Records(self.mode) : PushSqliteExecute(t, r)
    \/ PushSqliteStep(t)
    \/ PushSqliteCommit(t)
    \/ \E r \in Records(self.mode) : PushMongo(t, r)

\* Threads inserting through one shared instance.
Next == Construct \/ \E t \in Threads : Writes(t)
Spec == Init /\ [][Next]_vars

\* One caller: single-record inserts and deletes, one call after the other.
NextSeq == Construct \/ Single(1) \/ Deletes(1)
SpecSeq == Init /\ [][NextSeq]_vars

\* The state a constructor that returned normally leaves, over a
\* collection that holds the documents `store`.
Constructed(mode, store) ==
    /\ stage = "ready"
    /\ self = [mode |-> mode, sql_schema |-> TRUE, conn |-> "open",
               collection |-> TRUE]
    /\ uri = <<"mongodb+srv://cluster">>
    /\ server = "up"
    /\ ctorErr = ""
    /\ made = 1
    /\ disk = [file |-> TRUE, table |-> TRUE, rows |-> {}]
    /\ pending = {}
    /\ cursorBusy = NoThread
    /\ sql_lock = NoThread
    /\ mongo_lock = NoThread
    /\ docs = store
    /\ pc = [t \in Threads |-> "idle"]
    /\ arg = [t \in Threads |-> <<>>]
    /\ idx = [t \in Threads |-> 0]
    /\ out = NoOut
    /\ before = [t \in Threads |-> {}]
    /\ faults = 0
    /\ calls = 0
    /\ destroys = 0
    /\ hist = NoHist

\* One caller of a constructed aux instance making any of the calls, one
\* after the other.
InitOne == Constructed("aux", <<>>)
NextOne == Writes(1) \/ Finds(1) \/ Deletes(1)
SpecOne == InitOne /\ [][NextOne]_vars

\* A fresh instance over a collection that already holds documents, and
\* queries of every shape on it.
StoredDocument(ts) ==
    Document("aux", Row("aux", ts, IF ts % 2 = 0 THEN "ETH" ELSE "BTC",
                        100 + 5 * (ts % 3)))

\* Collections of up to MaxDocs aux documents with distinct timestamps, in
\* any stored order.
Stores ==
    { [i \in DOMAIN s |-> StoredDocument(s[i])] :
        s \in { f \in UNION { [1..n -> 1..MaxDocs] : n \in 0..MaxDocs } :
                  \A i, j \in DOMAIN f : i # j => f[i] # f[j] } }

InitFind == \E store \in Stores : Constructed("aux", store)

\* One query on the collection as found.
NextFind == out = NoOut /\ \E a \in FindArgs : FindRecords(1, a)
SpecFind == InitFind /\ [][NextFind]_vars

\* One caller of a constructed aux instance: single inserts into either
\* backend, then one query, through find_records or through _find_sqlite.
QueryAnswered == out.op \in {"find_records", "_find_sqlite"}

NextQuery ==
    /\ ~QueryAnswered
    /\ \/ Single(1)
       \/ \E a \in FindArgs : FindRecords(1, a)
       \/ \E a \in FindArgs : FindSqliteCall(1, a)
SpecQuery == InitOne /\ [][NextQuery]_vars

\* Threads of a constructed aux instance making batch inserts only, of
\* batches over two records that share a primary key.
LockBatches ==
    { b \in Batches("aux") :
        Range(b) \subseteq {Row("aux", 1, "BTC", 100), Row("aux", 1, "BTC", 105)} }

BulkSqlite(t) ==
    \/ \E b \in LockBatches : BulkSqliteCall(t, b)
    \/ BulkSqliteAcquire(t)
    \/ BulkSqliteExecutemany(t)
    \/ BulkSqliteStep(t)
    \/ BulkSqliteCommit(t)
    \/ BulkSqliteRollback(t)

BulkMongo(t) ==
    \/ \E b \in LockBatches : BulkMongoCall(t, Documents("aux", b))
    \/ BulkMongoAcquire(t)
    \/ BulkMongoInsert(t)

NextBulk == \E t \in Threads : BulkSqlite(t) \/ BulkMongo(t)
SpecBulk == InitOne /\ [][NextBulk]_vars

\* Direct calls of _find_sqlite with sort lists of up to MaxSortKeys keys,
\* no column named twice, and a direction that is none of 1, -1, "ASC", "DESC", on the table as
\* single inserts left it.
RenderDirections == Directions \cup {"desc"}
RenderKeys == { <<f, d>> : f \in SortKeys, d \in RenderDirections }
RenderSorts ==
    { s \in UNION { [1..n -> RenderKeys] : n \in 0..MaxSortKeys } :
        \A i, j \in DOMAIN s : i # j => s[i][1] # s[j][1] }
RenderArgs ==
    [query : Queries, sort : RenderSorts, projection : Projections,
     limit : { <<>>, <<1>> }]

NextRender ==
    /\ ~QueryAnswered
    /\ \/ \E r \in Records(self.mode) : PushSqliteExecute(1, r)
       \/ PushSqliteStep(1)
       \/ PushSqliteCommit(1)
       \/ \E a \in RenderArgs : FindSqliteCall(1, a)
SpecRender == InitOne /\ [][NextRender]_vars

\* ---------------------------------------------------------- properties
AllReturned == \A t \in Threads : pc[t] = "idle"

\* C1: once every call of every thread has returned, and the records
\* submitted had pairwise distinct primary keys and no backend failed, the
\* table holds exactly one row per record submitted to it and the
\* collection exactly one document per record submitted to it.
C1_NoRecordLost ==
    (stage = "ready" /\ AllReturned /\ faults = 0
        /\ hist.dupS = 0 /\ hist.dupM = 0)
    => /\ Keys(self.mode, disk.rows) = hist.keysS
       /\ Cardinality(disk.rows) = Cardinality(hist.keysS)
       /\ DocKeys(self.mode, Range(docs)) = hist.keysM
       /\ Len(docs) = hist.attM

\* A bulk_insert_sqlite call of thread t returns in this step.
BulkSqliteReturns(t) ==
    /\ pc[t] \in {"bs_commit", "bs_rollback"}
    /\ pc'[t] = "idle"

\* The primary keys of a batch, in the order of its records.
BatchKeys(batch) == [i \in DOMAIN batch |-> PrimaryKey(self.mode, batch[i])]

\* No call but the one that submitted this batch submitted a primary key
\* of it: every repeated key on record is a repeat inside the batch.
OnlyOwnKeys(batch) == hist.dupS = Repeats(BatchKeys(batch), {})

\* C3: bulk_insert_sqlite is all-or-nothing.  With no backend failure
\* injected and no other call submitting a key of the batch, a call that
\* returns True has every record of its batch persisted, and a call
\* returns False only with no record of its batch persisted.
C3_BatchAllOrNothing ==
    [][\A t \in Threads :
          (BulkSqliteReturns(t) /\ faults' = 0 /\ OnlyOwnKeys(arg[t]))
          => \/ /\ out'.ret = "True"
                /\ Range(arg[t]) \subseteq disk'.rows
             \/ /\ out'.ret = "False"
                /\ disk'.rows \cap Range(arg[t]) = {}]_vars

\* Thread t is between the execute and the end of the commit or rollback
\* of an insert into the table.
InSqliteWrite(t) ==
    pc[t] \in {"ps_step", "ps_commit", "bs_step", "bs_commit", "bs_rollback"}

\* C7: writes to one backend are mutually exclusive.  No two threads are
\* inside the execute-and-commit section of a table insert at once, and a
\* thread inside that section, or inside a collection insert, holds the
\* backend's lock.
C7_WritesMutuallyExclusive ==
    /\ \A t, u \in Threads :
          t # u => ~(InSqliteWrite(t) /\ InSqliteWrite(u))
    /\ \A t \in Threads : InSqliteWrite(t) => sql_lock = t
    /\ \A t \in Threads : pc[t] = "bm_insert" => mongo_lock = t

\* The INSERT of a push_to_sqlite_db call of thread t runs in this step, on
\* an open connection and with no failure injected, for a record whose
\* primary key a committed row already has.
DuplicateInsertRuns(t) ==
    /\ pc[t] = "ps_step"
    /\ self.conn = "open"
    /\ faults' = faults
    /\ PrimaryKey(self.mode, arg[t]) \in Keys(self.mode, disk.rows)

\* The committed rows that have the primary key of `row`.
RowsWithKey(rows, row) ==
    { r \in rows : PrimaryKey(self.mode, r) = PrimaryKey(self.mode, row) }

C6_FreshAfterDestroy ==
    hist.fresh
    => /\ disk.rows = {}
       /\ pending = {}
       /\ docs = <<>>

\* A second instance constructed after inserts and both deletes.
C6_FreshInstance ==
    /\ hist.fresh
    /\ stage = "ready"
    /\ made = 2
    /\ calls > 0
    /\ faults = 0

\* C9: construction never hands over a partly initialised instance.  The
\* constructor returns normally only with the URI given and the server
\* answering the ping, and then the connection is open, the file and its
\* table exist and the collection handle is set; without a URI, or with
\* the server unreachable or failing the ping, it raises and sets no
\* collection handle.
C9_NeverPartial ==
    [][/\ (stage # "ready" /\ stage' = "ready")
          => /\ uri' # <<>>
             /\ server' = "up"
             /\ ctorErr' = ""
             /\ self'.sql_schema
             /\ self'.conn = "open"
             /\ disk'.file /\ disk'.table
             /\ self'.collection
       /\ (stage = "sqlite" /\ (uri = <<>> \/ server # "up"))
          => /\ stage' = "failed"
             /\ ctorErr' \in {"ValueError", "ConnectionError"}
             /\ ~self'.collection]_vars

\* The constructor raised because the ping failed.
C9_PingFailed ==
    /\ stage = "failed"
    /\ uri # <<>>
    /\ server = "ping_fails"
    /\ ctorErr = "ConnectionError"
    /\ ~self.collection

\* C10: a mode other than aux or main is rejected when the schema is
\* resolved: from then on the constructor has failed with an unknown-mode
\* error, the SQLite connection is not opened and no database file is
\* created.
C10_UnknownModeRejectedFirst ==
    (self.mode \notin Modes /\ stage \notin {"none", "new"})
    => /\ stage = "failed"
       /\ ctorErr = "UnknownMode"
       /\ self.conn = "none"
       /\ ~disk.file

C8_NoErrorPropagates ==
    (faults = 0
        /\ out.op \in {"push_to_sqlite_db", "push_to_mongo_db",
                       "bulk_insert_sqlite", "bulk_insert_mongo",
                       "find_records"})
    => out.ret # "raised"

\* find_records returned, with one sort key and no failure injected.
SortedFindAnswered ==
    /\ out.op = "find_records"
    /\ faults = 0
    /\ Len(out.args.sort) = 1

\* The list is in order on field f: non-increasing when desc, else
\* non-decreasing.
SortedOn(list, f, desc) ==
    \A i \in 1..(Len(list) - 1) :
        /\ f \in DOMAIN list[i] \cap DOMAIN list[i + 1]
        /\ IF desc THEN list[i][f] >= list[i + 1][f]
                   ELSE list[i][f] <= list[i + 1][f]

\* Without a limit, as many records are returned as documents match.
ReturnsMatching ==
    ~Truthy(out.args.limit)
    => Len(out.list) =
         Cardinality({ i \in DOMAIN docs : Matches(docs[i], out.args.query) })

\* Scenario C: no query, sort on timestamp in the given direction, limit 2,
\* on a collection of five aux documents.
ScenarioC(direction) ==
    /\ out.op = "find_records"
    /\ faults = 0
    /\ out.args = [NoArgs EXCEPT !.sort = <<<<"timestamp", direction>>>>,
                                 !.limit = <<2>>]
    /\ Len(docs) = 5

\* The two documents with the latest timestamps, the newest first.
LatestTwoNewestFirst ==
    /\ Len(out.list) = 2
    /\ out.list[1] \in Range(docs)
    /\ out.list[2] \in Range(docs)
    /\ out.list[1].timestamp > out.list[2].timestamp
    /\ \A d \in Range(docs) :
          d \notin {out.list[1], out.list[2]}
          => d.timestamp < out.list[2].timestamp

C11_OneBackendAnswers ==
    (out.op = "find_records" /\ out.log = "" /\ faults = 0 /\ self.collection)
    => /\ out.args.projection = <<>> => Range(out.list) \subseteq Range(docs)
       /\ Len(out.list) <= Len(docs)
       /\ out.args = NoArgs => out.list = docs

\* find_records() answered from the collection while the table holds a
\* record the collection does not.
C11_BackendsDiffer ==
    /\ out.op = "find_records"
    /\ out.args = NoArgs
    /\ out.log = ""
    /\ faults = 0
    /\ disk.rows = {Row("aux", 1, "ETH", 100)}
    /\ docs = <<Document("aux", Row("aux", 1, "BTC", 100))>>
    /\ out.list = docs

\* C12: primary keys are unique in each backend.  In every state the table
\* holds no two rows, and the collection no two documents, with the same
\* primary key of the mode.
C12_PrimaryKeysUnique ==
    /\ Cardinality(Keys(self.mode, disk.rows)) = Cardinality(disk.rows)
    /\ Cardinality(DocKeys(self.mode, Range(docs))) = Len(docs)

\* The same query with its one sort key in direction d.
WithDirection(a, d) == [a EXCEPT !.sort = <<<<a.sort[1][1], d>>>>]

InBulkSqlite(t) == pc[t] \in {"bs_exec", "bs_step", "bs_commit", "bs_rollback"}

\* Thread t is inside the with block of bulk_insert_mongo.
InBulkMongo(t) == pc[t] = "bm_insert"

\* C14: the two locks and the batch inserts.  No thread holds sql_lock and
\* mongo_lock together.  A thread holds a lock exactly while it is inside
\* the with block of that backend's batch insert, so at most one batch per
\* backend is inside it and no thread that left the call, on whichever way
\* out, still holds the lock.  With no failure injected the open
\* transaction holds nothing while sql_lock is free and only rows of the
\* holder's batch otherwise, none of them durable before the batch's one
\* commit.  A thread waiting for sql_lock can acquire it, or the holder can
\* take its next step.
C14_LocksApartAndReleased ==
    /\ \A t \in Threads : ~(sql_lock = t /\ mongo_lock = t)
    /\ \A t \in Threads : sql_lock = t <=> InBulkSqlite(t)
    /\ \A t \in Threads : mongo_lock = t <=> InBulkMongo(t)
    /\ faults = 0
       => /\ sql_lock = NoThread => pending = {}
          /\ \A t \in Threads :
                sql_lock = t
                => pending \subseteq Range(arg[t]) /\ pending \cap disk.rows = {}
    /\ \A t \in Threads :
          pc[t] = "bs_lock"
          => \/ ENABLED BulkSqliteAcquire(t)
             \/ \E u \in Threads :
                   /\ sql_lock = u
                   /\ ENABLED (\/ BulkSqliteExecutemany(u)
                               \/ BulkSqliteStep(u)
                               \/ BulkSqliteCommit(u)
                               \/ BulkSqliteRollback(u))

\* A batch call ended with the exception of its rollback while another
\* thread waits for sql_lock, which is free again.
C14_FreeAfterRaise ==
    /\ out.op = "bulk_insert_sqlite"
    /\ out.ret = RollbackRaised
    /\ sql_lock = NoThread
    /\ \E t \in Threads : pc[t] = "bs_lock"

\* The call that returned last was a query with a malformed predicate.
MalformedAnswered ==
    /\ out.op \in {"find_records", "_find_sqlite"}
    /\ out.args.query # <<>>
    /\ out.args.query[1].field \in UnknownOperators

Descending(d) == d = "-1" \/ d = "DESC"

\* C16: _find_sqlite renders each part of the statement only when it is
\* supplied.  No predicate gives no WHERE, no sort no ORDER BY, no
\* projection selects all columns, no limit gives no LIMIT; the ORDER BY
\* keeps the sort keys in the order given, each descending exactly when its
\* direction is -1 or "DESC" and ascending for every other value.  The
\* rows returned agree: without predicate and limit every row of the table
\* comes back, without projection each carries every column, and they are
\* in the order of the sort keys as given.
C16_PartsAsSupplied ==
    out.op = "_find_sqlite"
    => LET a  == out.args
           st == SqliteStatement(a)
           expected == [i \in DOMAIN a.sort |->
                          <<a.sort[i][1], Descending(a.sort[i][2])>>]
       IN  /\ (st.where = <<>>) <=> (a.query = <<>>)
           /\ (st.order_by = <<>>) <=> (a.sort = <<>>)
           /\ a.projection = <<>> => st.columns = <<"*">>
           /\ a.limit = <<>> => st.limit = <<>>
           /\ DOMAIN st.order_by = DOMAIN a.sort
           /\ \A i \in DOMAIN a.sort :
                 /\ st.order_by[i][1] = a.sort[i][1]
                 /\ st.order_by[i][2] =
                       IF Descending(a.sort[i][2]) THEN "DESC" ELSE "ASC"
           /\ out.log = ""
              => /\ (a.query = <<>> /\ a.limit = <<>>)
                    => Len(out.list) = Cardinality(disk.rows \cup pending)
                 /\ a.projection = <<>>
                    => /\ \A i \in DOMAIN out.list :
                             DOMAIN out.list[i] = Range(Fields(self.mode))
                       /\ \A i, j \in DOMAIN out.list :
                             i < j => ~Precedes(out.list[j], out.list[i], expected)

\* _find_sqlite sorted two rows of different rates on rate with the
\* direction "desc" first and a second key after it, and returned the lower
\* rate first.
C16_OtherDirectionAscends ==
    /\ out.op = "_find_sqlite"
    /\ out.log = ""
    /\ Len(out.args.sort) = 2
    /\ out.args.sort[1] = <<"rate", "desc">>
    /\ out.args.projection = <<>>
    /\ Len(out.list) = 2
    /\ out.list[1].rate < out.list[2].rate

\* Thread t's push_to_sqlite_db returns from its commit as an insert made.
PushSqliteInserted(t) ==
    /\ pc[t] = "ps_commit"
    /\ pc'[t] = "idle"
    /\ out'.thread = t
    /\ out'.log = "inserted"

\* Thread u's batch has rows still to execute, or has failed and awaits its
\* rollback.
BatchUnfinished(u) == pc[u] \in {"bs_step", "bs_rollback"}

\* C17: batches stay atomic when single inserts run beside them.  The
\* commit of a single insert makes no row durable that belongs to a batch
\* another thread has not finished executing or is about to roll back, and
\* the row of a single insert that returns as made is in the table, not
\* discarded by the rollback of a failed batch.
C17_BatchAtomicBesideSingles ==
    [][\A t \in Threads :
          PushSqliteInserted(t)
          => /\ \A u \in Threads :
                   BatchUnfinished(u)
                   => (disk'.rows \ disk.rows) \cap Range(arg[u]) \subseteq {arg[t]}
             /\ arg[t] \in disk'.rows]_vars

\* C18: whenever a limit n >= 0 is given to a query, 0 included, the list
\* returned holds at most n records, on the document path (find_records) and
\* on the relational path (_find_sqlite).
C18_LimitCaps ==
    (QueryAnswered /\ out.args.limit # <<>>)
    => Len(out.list) <= out.args.limit[1]

====
